---- MODULE Spec2Model ----
(***************************************************************************)
(* Multi-site device-fleet orchestration of HotspotPortal:                 *)
(* MultiSiteManager (backend/services/multiSiteManager.js) and the routes  *)
(* of backend/routes/multiSite.js.                                         *)
(*                                                                         *)
(* Every async method is cut at its awaits: one action is the code that    *)
(* runs between two suspension points.  The database (tables sites and     *)
(* remote_users) and the remote controllers (hotspot users and simple      *)
(* queues of each router) are state; the answer of a router to an HTTP     *)
(* request and the availability of the database are inputs.                *)
(* Beside them stand the device client of the local controller             *)
(* (MikrotikManager) and the plugin loader (backend/core/PluginManager.js).*)
(***************************************************************************)
EXTENDS Naturals, Integers, Sequences, FiniteSets, TLC

\* ------------------------------------------------------------------ bounds
MaxSites == 2       \* rows of table sites
MaxFan == 2         \* length of a requested siteIds list
MaxBw == 1          \* bandwidth values 0..MaxBw
MaxRows == 2        \* rows of remote_users per (site_id, username)
MaxTicks == 3       \* heartbeat ticks per site
MaxSyncTicks == 2   \* heartbeat ticks per site beside a sync
MaxTokens == 1      \* rows of site_management_tokens
MaxDays == 31       \* days the token clock runs
MaxClockSteps == 2  \* steps Date.now() of the MikrotikManager advances
MaxLoads == 3       \* loadPlugin calls

SiteIds == 1..MaxSites
Usernames == {"alice"}
Bandwidths == 0..MaxBw
Procs == {"fan", "op"}

VARIABLES
  sites,          \* table sites: sites[id] = [site_type, endpoint, status, last_heartbeat]
  remote_users,   \* table remote_users: [site_id][username] = bandwidth_limit of each row
  hotspot,        \* /ip/hotspot/user of each router: the usernames it holds
  queue,          \* /queue/simple of each router: max-limit of queue-<username>, 0 = no queue
  frame,          \* the MultiSiteManager call each request is suspended in
  fan,            \* the fan-out request: its siteIds, loop position and results
  op,             \* the single-site request and its reply
  heartbeat,      \* sites whose setInterval timer is running
  ticks,          \* per site: number of timer callbacks started
  pending,        \* per site: callbacks awaiting testSiteConnection
  events,         \* per site: the 'site:heartbeat' events emitted (status.connected)
  probe,          \* the reply of the last POST /api/sites/:id/test-connection
  unhandled,      \* origins of the errors that rejected a timer callback
  site_management_tokens,  \* table site_management_tokens: its rows
  now,            \* the clock of the token table, in days
  verified,       \* the verifyManagementToken call and what it returned
  router,         \* the local controller: names of its hotspot users and of its queues
  cache,          \* MikrotikManager.cache: users, queues, aps, lastUpdate
  devNow,         \* Date.now() of the MikrotikManager, in milliseconds
  dev,            \* the MikrotikManager call in progress and what it returned
  silent,         \* sites whose controller answers no request at present
  plugins,        \* PluginManager.plugins: name -> manifest version and status
  hooks,          \* PluginManager.hooks: hook name -> plugins of the registered functions
  routes,         \* PluginManager.routes: the plugin of each entry
  middleware,     \* PluginManager.middleware: the plugin of each entry
  load            \* the loadPlugin call in progress and how it ended

vars == <<sites, remote_users, hotspot, queue, frame, fan, op,
          heartbeat, ticks, pending, events, probe, unhandled,
          site_management_tokens, now, verified, router, cache, devNow, dev,
          silent, plugins, hooks, routes, middleware, load>>

orchVars == <<remote_users, hotspot, queue, frame, fan, op>>
monVars == <<heartbeat, ticks, pending, events>>
probeVars == <<probe, unhandled>>
tokVars == <<site_management_tokens, now, verified>>
devVars == <<router, cache, devNow, dev>>
envVars == <<silent>>
plugVars == <<plugins, hooks, routes, middleware, load>>
sideVars == <<tokVars, devVars, envVars, plugVars>>

\* ---------------------------------------------------------------- helpers
RECURSIVE Count(_, _)
Count(x, s) ==
  IF s = <<>> THEN 0
  ELSE (IF Head(s) = x THEN 1 ELSE 0) + Count(x, Tail(s))

SeqsUpTo(S, n) == UNION {[1..k -> S] : k \in 0..n}

NoFrame ==
  [fn |-> "none", pc |-> "none", siteId |-> 0, username |-> "", bw |-> 0,
   cols |-> {}, http |-> 0, confirmed |-> FALSE, absent |-> FALSE, dbOk |-> TRUE]

NewFrame(fn, siteId, username, bw, cols) ==
  [fn |-> fn, pc |-> "call1", siteId |-> siteId, username |-> username,
   bw |-> bw, cols |-> cols, http |-> 0, confirmed |-> FALSE, absent |-> FALSE,
   dbOk |-> TRUE]

IdleFan ==
  [pc |-> "idle", fn |-> "none", via |-> "none", username |-> "", bw |-> 0,
   siteIds |-> <<>>, i |-> 0, results |-> <<>>, snapshot |-> <<>>, mirror0 |-> <<>>,
   malformed |-> FALSE, requested |-> 0, failed |-> 0, code |-> 0]

NoProbe ==
  [siteId |-> 0, known |-> FALSE, dbOk |-> TRUE, ans |-> "ok", connected |-> FALSE,
   code |-> 0]

NoVerify ==
  [pc |-> "idle", siteId |-> 0, token |-> 0, dbOk |-> TRUE, why |-> "",
   value |-> FALSE, threw |-> FALSE]

IdleOp ==
  [pc |-> "idle", fn |-> "none", siteId |-> 0, username |-> "", success |-> FALSE,
   error |-> "", confirmed |-> FALSE, absent |-> FALSE, dbOk |-> TRUE]

\* ------------------------------------------------- the environment's inputs
\* What an HTTP request to a router ends in: a 2xx answer, no answer within the
\* axios timeout, or a non-2xx answer (axios rejects both of the latter).
Answers == {"ok", "timeout", "error"}

\* The key sets a caller passes as `updates` to updateRemoteUser: the route's
\* RouterOS property names, and a column name of remote_users.
UpdateKeySets == {{"limit-bytes-out", "limit-uptime"}, {"bandwidth_limit"}}

\* Columns of table remote_users.
RemoteUsersColumns ==
  {"id", "site_id", "username", "password", "bandwidth_limit", "status", "created_at"}

\* --------------------------------------------------------- callSiteAPI
\* The part of callSiteAPI before the HTTP request: the site row is read, a
\* missing row and a row that is not of type remote throw.
SiteCheck_noLookup(siteId) == "ok"
SiteCheck(siteId) ==
  IF siteId \notin DOMAIN sites THEN "Site not found"
  ELSE IF sites[siteId].site_type # "remote" THEN "Can only call API on remote sites"
  ELSE "ok"

\* config.timeout = 10000: what a request to the controller of siteId can end
\* in.  A controller that answers nothing leaves the timeout, which rejects the
\* request after 10 s.
Settled_noTimeout(siteId) == IF siteId \in silent THEN {} ELSE Answers
Settled(siteId) == IF siteId \in silent THEN {"timeout"} ELSE Answers

\* error.message of a rejected axios call.
AxiosError(ans) ==
  IF ans = "timeout" THEN "timeout of 10000ms exceeded"
  ELSE "Request failed with status code"

\* ------------------------------------------------------- the fan-out loop
\* for (const siteId of siteIds) { try {...} catch {...} }: the catch is inside
\* the loop body, so the loop moves to the next element after a failure as
\* after a success.
LoopAdvance_abort(i, n, success) == IF success THEN i + 1 ELSE n + 1
LoopAdvance(i, n, success) == i + 1

\* results.push({ siteId, success, ... }) of both branches of the try.  http and
\* confirmed are not fields of the code's entry: they record how many HTTP
\* requests the branch sent and whether the router confirmed the mutation.
PushResult_dropFailure(results, f, success, error) ==
  IF success
    THEN Append(results, [siteId |-> f.siteId, success |-> success, error |-> error,
                          http |-> f.http, confirmed |-> f.confirmed])
    ELSE results
PushResult(results, f, success, error) ==
  Append(results, [siteId |-> f.siteId, success |-> success, error |-> error,
                   http |-> f.http, confirmed |-> f.confirmed])

\* A call of process p returns (success) or throws (error) with final frame f.
\* In the fan-out the loop body pushes the entry and calls the method for the
\* next site id, or returns { username, results } after the last one; in the
\* single-site route the reply is sent.
Return(p, f, success, error) ==
  IF p = "fan"
    THEN LET n == Len(fan.siteIds)
             j == LoopAdvance(fan.i, n, success)
         IN /\ fan' = [fan EXCEPT !.results = PushResult(@, f, success, error),
                                  !.i = j,
                                  !.pc = IF j > n THEN "done" ELSE "loop"]
            /\ frame' = [frame EXCEPT ![p] =
                           IF j > n THEN NoFrame
                           ELSE NewFrame(f.fn, fan.siteIds[j], f.username, f.bw, f.cols)]
            /\ op' = op
    ELSE /\ op' = [op EXCEPT !.pc = "done", !.success = success, !.error = error,
                             !.confirmed = f.confirmed, !.absent = f.absent,
                             !.dbOk = f.dbOk]
         /\ frame' = [frame EXCEPT ![p] = NoFrame]
         /\ fan' = fan

Suspend(p, f) ==
  /\ frame' = [frame EXCEPT ![p] = f]
  /\ UNCHANGED <<fan, op>>

\* ----------------------------------------------------- createRemoteUser
\* After callSiteAPI: the INSERT is reached only when callSiteAPI returned.
AfterPost_ignoreError(ok) == "db"
AfterPost(ok) == IF ok THEN "db" ELSE "throw"

\* callSiteAPI(siteId, '/ip/hotspot/user', 'POST', payload).  A router holding
\* the name answers the POST with an error; a request that timed out may or may
\* not have been applied.
createRemoteUser_post(p) ==
  /\ frame[p].fn = "createRemoteUser" /\ frame[p].pc = "call1"
  /\ LET f == frame[p]
         chk == SiteCheck(f.siteId)
     IN IF chk # "ok"
          THEN /\ Return(p, f, FALSE, chk)
               /\ UNCHANGED <<hotspot>>
          ELSE \E ans \in Settled(f.siteId), applied \in BOOLEAN :
                 LET exists == f.username \in hotspot[f.siteId]
                     ok == ans = "ok" /\ ~exists
                     f1 == [f EXCEPT !.http = @ + 1, !.confirmed = ok, !.pc = "db"]
                 IN /\ (applied => ans = "timeout")
                    /\ hotspot' = IF ok \/ (ans = "timeout" /\ applied)
                                    THEN [hotspot EXCEPT ![f.siteId] = @ \cup {f.username}]
                                    ELSE hotspot
                    /\ IF AfterPost(ok) = "db"
                         THEN Suspend(p, f1)
                         ELSE Return(p, f1, FALSE, AxiosError(IF exists /\ ans = "ok" THEN "error" ELSE ans))
  /\ UNCHANGED <<sites, remote_users, queue>>
  /\ UNCHANGED <<monVars, probeVars, sideVars>>

\* INSERT INTO remote_users (site_id, username, password, bandwidth_limit, ...).
createRemoteUser_insert(p) ==
  /\ frame[p].fn = "createRemoteUser" /\ frame[p].pc = "db"
  /\ LET f == frame[p]
     IN \E dbOk \in BOOLEAN :
          IF dbOk
            THEN /\ remote_users' = [remote_users EXCEPT ![f.siteId][f.username] = Append(@, f.bw)]
                 /\ Return(p, f, TRUE, "")
            ELSE /\ remote_users' = remote_users
                 /\ Return(p, [f EXCEPT !.dbOk = FALSE], FALSE, "database error")
  /\ UNCHANGED <<sites, hotspot, queue>>
  /\ UNCHANGED <<monVars, probeVars, sideVars>>

\* ----------------------------------------------------- updateRemoteUser
\* users.find((u) => u.name === username) on the list a router returned.
FindUser(users, username) == username \in users

\* callSiteAPI(siteId, '/ip/hotspot/user', 'GET') and the find.
updateRemoteUser_get(p) ==
  /\ frame[p].fn = "updateRemoteUser" /\ frame[p].pc = "call1"
  /\ LET f == frame[p]
         chk == SiteCheck(f.siteId)
     IN IF chk # "ok"
          THEN Return(p, f, FALSE, chk)
          ELSE \E ans \in Settled(f.siteId) :
                 LET f1 == [f EXCEPT !.http = @ + 1]
                 IN IF ans # "ok"
                      THEN Return(p, f1, FALSE, AxiosError(ans))
                      ELSE IF ~FindUser(hotspot[f.siteId], f.username)
                        THEN Return(p, [f1 EXCEPT !.absent = TRUE], FALSE,
                                    "User not found on remote site")
                        ELSE Suspend(p, [f1 EXCEPT !.pc = "call2"])
  /\ UNCHANGED <<sites, remote_users, hotspot, queue>>
  /\ UNCHANGED <<monVars, probeVars, sideVars>>

\* callSiteAPI(siteId, `/ip/hotspot/user/${user['.id']}`, 'PUT', updates).  The
\* object id resolved by the GET is identified with the presence of the name:
\* the router answers an error when the user was removed in between.
updateRemoteUser_put(p) ==
  /\ frame[p].fn = "updateRemoteUser" /\ frame[p].pc = "call2"
  /\ LET f == frame[p]
     IN \E ans \in Settled(f.siteId) :
          LET ok == ans = "ok" /\ f.username \in hotspot[f.siteId]
              f1 == [f EXCEPT !.http = @ + 1, !.confirmed = ok, !.pc = "db"]
          IN IF ok
               THEN Suspend(p, f1)
               ELSE Return(p, f1, FALSE, AxiosError(IF ans = "ok" THEN "error" ELSE ans))
  /\ UNCHANGED <<sites, remote_users, hotspot, queue>>
  /\ UNCHANGED <<monVars, probeVars, sideVars>>

\* `UPDATE remote_users SET ${Object.keys(updates).map((k, i) => `${k} = $${i + 2}`)
\* .join(', ')} WHERE ...`: the keys of `updates` are pasted in as column names.
\* The statement is accepted when there is at least one key and every key is a
\* column of remote_users written as a plain identifier.
UpdateSqlAccepted(cols) == cols # {} /\ cols \subseteq RemoteUsersColumns

UpdateRows(rows, cols, bw) ==
  IF "bandwidth_limit" \in cols THEN [k \in DOMAIN rows |-> bw] ELSE rows

updateRemoteUser_update(p) ==
  /\ frame[p].fn = "updateRemoteUser" /\ frame[p].pc = "db"
  /\ LET f == frame[p]
     IN \E dbOk \in BOOLEAN :
          IF dbOk /\ UpdateSqlAccepted(f.cols)
            THEN /\ remote_users' = [remote_users EXCEPT ![f.siteId][f.username] =
                                       UpdateRows(@, f.cols, f.bw)]
                 /\ Return(p, f, TRUE, "")
            ELSE /\ remote_users' = remote_users
                 /\ Return(p, [f EXCEPT !.dbOk = dbOk], FALSE,
                           IF dbOk THEN "syntax error in UPDATE" ELSE "database error")
  /\ UNCHANGED <<sites, hotspot, queue>>
  /\ UNCHANGED <<monVars, probeVars, sideVars>>

\* ----------------------------------------------------- deleteRemoteUser
\* if (!user) throw new Error(`User not found on remote site: ${username}`)
DeleteAbsent == "throw"

deleteRemoteUser_get(p) ==
  /\ frame[p].fn = "deleteRemoteUser" /\ frame[p].pc = "call1"
  /\ LET f == frame[p]
         chk == SiteCheck(f.siteId)
     IN IF chk # "ok"
          THEN Return(p, f, FALSE, chk)
          ELSE \E ans \in Settled(f.siteId) :
                 LET f1 == [f EXCEPT !.http = @ + 1]
                 IN IF ans # "ok"
                      THEN Return(p, f1, FALSE, AxiosError(ans))
                      ELSE IF ~FindUser(hotspot[f.siteId], f.username)
                        THEN IF DeleteAbsent = "throw"
                               THEN Return(p, [f1 EXCEPT !.absent = TRUE], FALSE,
                                           "User not found on remote site")
                               ELSE Return(p, [f1 EXCEPT !.absent = TRUE], TRUE, "")
                        ELSE Suspend(p, [f1 EXCEPT !.pc = "call2"])
  /\ UNCHANGED <<sites, remote_users, hotspot, queue>>
  /\ UNCHANGED <<monVars, probeVars, sideVars>>

\* callSiteAPI(siteId, `/ip/hotspot/user/${user['.id']}`, 'DELETE')
deleteRemoteUser_delete(p) ==
  /\ frame[p].fn = "deleteRemoteUser" /\ frame[p].pc = "call2"
  /\ LET f == frame[p]
     IN \E ans \in Settled(f.siteId), applied \in BOOLEAN :
          LET ok == ans = "ok" /\ f.username \in hotspot[f.siteId]
              f1 == [f EXCEPT !.http = @ + 1, !.confirmed = ok, !.pc = "db"]
          IN /\ (applied => ans = "timeout")
             /\ hotspot' = IF ok \/ (ans = "timeout" /\ applied)
                             THEN [hotspot EXCEPT ![f.siteId] = @ \ {f.username}]
                             ELSE hotspot
             /\ IF ok
                  THEN Suspend(p, f1)
                  ELSE Return(p, f1, FALSE, AxiosError(IF ans = "ok" THEN "error" ELSE ans))
  /\ UNCHANGED <<sites, remote_users, queue>>
  /\ UNCHANGED <<monVars, probeVars, sideVars>>

\* DELETE FROM remote_users WHERE site_id = $1 AND username = $2
deleteRemoteUser_remove(p) ==
  /\ frame[p].fn = "deleteRemoteUser" /\ frame[p].pc = "db"
  /\ LET f == frame[p]
     IN \E dbOk \in BOOLEAN :
          IF dbOk
            THEN /\ remote_users' = [remote_users EXCEPT ![f.siteId][f.username] = <<>>]
                 /\ Return(p, f, TRUE, "")
            ELSE /\ remote_users' = remote_users
                 /\ Return(p, [f EXCEPT !.dbOk = FALSE], FALSE, "database error")
  /\ UNCHANGED <<sites, hotspot, queue>>
  /\ UNCHANGED <<monVars, probeVars, sideVars>>

\* ------------------------------------------- updateRemoteQueueBandwidth
\* queues.find((q) => q.name === `queue-${username}`)
FindQueue(queues, username) == username \in DOMAIN queues

\* callSiteAPI(siteId, '/queue/simple', 'GET') and the find.
updateRemoteQueueBandwidth_get(p) ==
  /\ frame[p].fn = "updateRemoteQueueBandwidth" /\ frame[p].pc = "call1"
  /\ LET f == frame[p]
         chk == SiteCheck(f.siteId)
     IN IF chk # "ok"
          THEN Return(p, f, FALSE, chk)
          ELSE \E ans \in Settled(f.siteId) :
                 LET f1 == [f EXCEPT !.http = @ + 1]
                 IN IF ans # "ok"
                      THEN Return(p, f1, FALSE, AxiosError(ans))
                      ELSE IF ~FindQueue(queue[f.siteId], f.username)
                        THEN Return(p, [f1 EXCEPT !.absent = TRUE], FALSE,
                                    "Queue not found for user")
                        ELSE Suspend(p, [f1 EXCEPT !.pc = "call2"])
  /\ UNCHANGED <<sites, remote_users, hotspot, queue>>
  /\ UNCHANGED <<monVars, probeVars, sideVars>>

\* callSiteAPI(siteId, `/queue/simple/${queue['.id']}`, 'PUT', updates); the
\* method returns { success: true, queue } without a statement on remote_users.
updateRemoteQueueBandwidth_put(p) ==
  /\ frame[p].fn = "updateRemoteQueueBandwidth" /\ frame[p].pc = "call2"
  /\ LET f == frame[p]
     IN \E ans \in Settled(f.siteId), applied \in BOOLEAN :
          LET present == f.username \in DOMAIN queue[f.siteId]
              ok == ans = "ok" /\ present
              f1 == [f EXCEPT !.http = @ + 1, !.confirmed = ok]
          IN /\ (applied => ans = "timeout")
             /\ queue' = IF present /\ (ok \/ (ans = "timeout" /\ applied))
                           THEN [queue EXCEPT ![f.siteId][f.username] = f.bw]
                           ELSE queue
             /\ IF ok
                  THEN Return(p, f1, TRUE, "")
                  ELSE Return(p, f1, FALSE, AxiosError(IF ans = "ok" THEN "error" ELSE ans))
  /\ UNCHANGED <<sites, remote_users, hotspot>>
  /\ UNCHANGED <<monVars, probeVars, sideVars>>

\* ------------------------------------------------------ request starts
\* Rows the requests in flight may still insert for (siteId, username): the
\* guard that keeps remote_users within MaxRows.
PlannedRows(siteId, username) ==
  (IF fan.fn = "createRemoteUser" /\ fan.username = username /\ fan.pc = "loop"
     THEN Count(siteId, SubSeq(fan.siteIds, fan.i, Len(fan.siteIds))) ELSE 0)
  + (IF frame["op"].fn = "createRemoteUser" /\ frame["op"].siteId = siteId
        /\ frame["op"].username = username THEN 1 ELSE 0)

RoomFor(siteIds, username) ==
  \A s \in SiteIds :
    Len(remote_users[s][username]) + PlannedRows(s, username) + Count(s, siteIds) <= MaxRows

\* The body of a fan-out method up to its first await: results = [] and the
\* first iteration's call, or the return of an empty result list.  mirror0 keeps
\* remote_users as the fan-out found it.
StartFanOut(fn, via, username, bw, siteIds, snapshot) ==
  /\ fan' = [pc |-> IF siteIds = <<>> THEN "done" ELSE "loop", fn |-> fn, via |-> via,
             username |-> username, bw |-> bw, siteIds |-> siteIds, i |-> 1,
             results |-> <<>>, snapshot |-> snapshot, mirror0 |-> remote_users,
             malformed |-> FALSE, requested |-> Len(siteIds), failed |-> 0, code |-> 0]
  /\ frame' = [frame EXCEPT !["fan"] =
                 IF siteIds = <<>> THEN NoFrame
                 ELSE NewFrame(fn, siteIds[1], username, bw, {})]

\* A fan-out method throws before its loop: `for (const siteId of siteIds)` on
\* a request body without a siteIds list (malformed), or the SELECT of the sync
\* failing.  The outer catch logs and rethrows.
ThrowFanOut(fn, via, malformed) ==
  /\ fan' = [IdleFan EXCEPT !.pc = "threw", !.fn = fn, !.via = via, !.malformed = malformed]
  /\ frame' = frame

createUserAcrossMultipleSites ==
  /\ fan.pc = "idle"
  /\ \/ \E username \in Usernames, bw \in Bandwidths, siteIds \in SeqsUpTo(SiteIds, MaxFan) :
          /\ RoomFor(siteIds, username)
          /\ StartFanOut("createRemoteUser", "multi", username, bw, siteIds, <<>>)
     \/ ThrowFanOut("createRemoteUser", "multi", TRUE)
  /\ UNCHANGED <<sites, remote_users, hotspot, queue, op>>
  /\ UNCHANGED <<monVars, probeVars, sideVars>>

updateBandwidthAcrossMultipleSites ==
  /\ fan.pc = "idle"
  /\ \/ \E username \in Usernames, bw \in Bandwidths, siteIds \in SeqsUpTo(SiteIds, MaxFan) :
          StartFanOut("updateRemoteQueueBandwidth", "multi", username, bw, siteIds, <<>>)
     \/ ThrowFanOut("updateRemoteQueueBandwidth", "multi", TRUE)
  /\ UNCHANGED <<sites, remote_users, hotspot, queue, op>>
  /\ UNCHANGED <<monVars, probeVars, sideVars>>

\* SELECT id FROM sites WHERE status = 'active'
ActiveSiteIds ==
  LET ids == {s \in DOMAIN sites : sites[s].status = "active"}
      RECURSIVE Asc(_, _)
      Asc(k, acc) == IF k > Len(sites) THEN acc
                     ELSE Asc(k + 1, IF k \in ids THEN Append(acc, k) ELSE acc)
  IN Asc(1, <<>>)

\* syncUserAcrossAllSites: the SELECT, then createUserAcrossMultipleSites on its
\* rows.  snapshot keeps the status each site had when the SELECT ran.
syncUserAcrossAllSites ==
  /\ fan.pc = "idle"
  /\ \/ \E username \in Usernames, bw \in Bandwidths :
          /\ RoomFor(ActiveSiteIds, username)
          /\ StartFanOut("createRemoteUser", "sync", username, bw, ActiveSiteIds,
                         [s \in DOMAIN sites |-> sites[s].status])
     \/ ThrowFanOut("createRemoteUser", "sync", FALSE)
  /\ UNCHANGED <<sites, remote_users, hotspot, queue, op>>
  /\ UNCHANGED <<monVars, probeVars, sideVars>>

\* try { ...; res.json({ success: true, ..., results: result.results }) }
\* catch (error) { res.status(500).json({ error: error.message }) }
ReplyCode(pc) == IF pc = "threw" THEN 500 ELSE 200

\* The route answers.  What stays in fan is the answer's status code with the
\* request it answered: whether it lacked a siteIds list, how many site ids it
\* named and how many of their entries are failures.
FanReply ==
  /\ fan.pc \in {"done", "threw"}
  /\ fan' = [IdleFan EXCEPT
               !.code = ReplyCode(fan.pc),
               !.malformed = fan.malformed,
               !.requested = fan.requested,
               !.failed = Cardinality({k \in DOMAIN fan.results : ~fan.results[k].success})]
  /\ UNCHANGED <<sites, remote_users, hotspot, queue, frame, op>>
  /\ UNCHANGED <<monVars, probeVars, sideVars>>

\* The single-site routes: POST/PUT/DELETE /api/sites/:id/users[/:username] and
\* PUT /api/sites/:id/bandwidth/:username, each one call of the manager.
SiteMethods ==
  {"createRemoteUser", "updateRemoteUser", "deleteRemoteUser", "updateRemoteQueueBandwidth"}

SiteRoute ==
  /\ op.pc = "idle"
  /\ \E fn \in SiteMethods, siteId \in SiteIds, username \in Usernames,
        bw \in Bandwidths, cols \in UpdateKeySets :
       /\ fn = "createRemoteUser" => RoomFor(<<siteId>>, username)
       /\ fn # "updateRemoteUser" => cols = {"bandwidth_limit"}
       /\ op' = [IdleOp EXCEPT !.pc = "busy", !.fn = fn, !.siteId = siteId,
                               !.username = username]
       /\ frame' = [frame EXCEPT !["op"] =
                      NewFrame(fn, siteId, username, bw,
                               IF fn = "updateRemoteUser" THEN cols ELSE {})]
  /\ UNCHANGED <<sites, remote_users, hotspot, queue, fan>>
  /\ UNCHANGED <<monVars, probeVars, sideVars>>

\* res.json(...) or res.status(500).json({ error })
SiteReply ==
  /\ op.pc = "done"
  /\ op' = IdleOp
  /\ UNCHANGED <<sites, remote_users, hotspot, queue, frame, fan>>
  /\ UNCHANGED <<monVars, probeVars, sideVars>>

\* An administrator of a remote router adds or removes the user or its queue on
\* the router itself.
ControllerAdmin ==
  /\ \E s \in DOMAIN sites, username \in Usernames :
       /\ sites[s].site_type = "remote"
       /\ \E change \in {"user", "queue"}, bw \in Bandwidths :
            IF change = "user"
              THEN /\ bw = 0
                   /\ hotspot' = [hotspot EXCEPT ![s] =
                                    IF username \in @ THEN @ \ {username} ELSE @ \cup {username}]
                   /\ queue' = queue
              ELSE /\ queue' = [queue EXCEPT ![s] =
                                  IF username \in DOMAIN @ /\ @[username] = bw
                                    THEN [u \in DOMAIN @ \ {username} |-> @[u]]
                                    ELSE [u \in DOMAIN @ \cup {username} |->
                                            IF u = username THEN bw ELSE @[u]]]
                   /\ hotspot' = hotspot
  /\ UNCHANGED <<sites, remote_users, frame, fan, op>>
  /\ UNCHANGED <<monVars, probeVars, sideVars>>

\* The controller of a remote site stops answering requests, or answers again.
ControllerSilence ==
  /\ \E s \in DOMAIN sites :
       /\ sites[s].site_type = "remote"
       /\ silent' = IF s \in silent THEN silent \ {s} ELSE silent \cup {s}
  /\ UNCHANGED <<sites, orchVars, monVars, probeVars, tokVars, devVars, plugVars>>

\* ------------------------------------------------- registry and monitor
\* The (router_ip, router_port, router_user, router_pass) a registration
\* carries: the endpoint of a controller with its credentials.  One tuple in
\* use, so that a second registration names the endpoint of the first.
Endpoints == {"192.168.88.1:8728 admin"}

\* INSERT INTO sites (...) VALUES (..., 'active', NOW()) RETURNING id: ids are
\* the serial numbers 1, 2, ...  The statement is made whatever rows the table
\* holds; no column of sites but id is known to be unique.
registerSite(siteType, endpoint) ==
  Append(sites, [site_type |-> siteType, endpoint |-> endpoint, status |-> "active",
                 last_heartbeat |-> 0])

\* setInterval(async () => {...}, interval): one timer per call.
startSiteHeartbeat(siteId) == heartbeat \cup {siteId}

\* POST /api/sites/register: registerSite, then startSiteHeartbeat(site.id).
RegisterRoute ==
  /\ Len(sites) < MaxSites
  /\ \E siteType \in {"local", "remote"}, endpoint \in Endpoints :
       /\ sites' = registerSite(siteType, endpoint)
       /\ heartbeat' = startSiteHeartbeat(Len(sites) + 1)
  /\ UNCHANGED <<ticks, pending, events>>
  /\ UNCHANGED <<orchVars, probeVars, sideVars>>

\* The timer of site s fires: the callback starts and is suspended in
\* testSiteConnection.  A timer fires whatever the callbacks of earlier ticks,
\* of this site or of another, are doing.
TickGuard_serial(s) == s \in heartbeat /\ \A t \in SiteIds : pending[t] = {}
TickGuard(s) == s \in heartbeat

HeartbeatTick(s) ==
  /\ TickGuard(s)
  /\ ticks[s] < MaxTicks
  /\ ticks' = [ticks EXCEPT ![s] = @ + 1]
  /\ pending' = [pending EXCEPT ![s] = @ \cup {ticks[s] + 1}]
  /\ UNCHANGED <<sites, heartbeat, events>>
  /\ UNCHANGED <<orchVars, probeVars, sideVars>>

\* catch (error) { return { connected: false, error: error.message, ... } }:
\* whatever the body of testSiteConnection throws becomes a result.
ProbeCatch_rethrow(error) == [connected |-> FALSE, error |-> error, threw |-> TRUE]
ProbeCatch(error) == [connected |-> FALSE, error |-> error, threw |-> FALSE]

\* testSiteConnection(siteId): the SELECT of the site row, then for a remote
\* site GET /rest/system/identity with timeout 5000.  A missing row gives
\* { connected: false, error: 'Site not found' }, a local site { connected: true }.
testSiteConnection(siteId, dbOk, ans) ==
  IF ~dbOk THEN ProbeCatch("database error")
  ELSE IF siteId \notin DOMAIN sites
    THEN [connected |-> FALSE, error |-> "Site not found", threw |-> FALSE]
  ELSE IF sites[siteId].site_type = "remote" /\ ans # "ok"
    THEN ProbeCatch(AxiosError(ans))
  ELSE [connected |-> TRUE, error |-> "", threw |-> FALSE]

\* status.connected ? 'online' : 'offline'
StatusOf_stuck(connected) == "online"
StatusOf(connected) == IF connected THEN "online" ELSE "offline"

\* UPDATE sites SET last_heartbeat = NOW(), status = $1 WHERE id = $2
UpdateSites_noWhere(rows, status, siteId, stamp) ==
  [t \in DOMAIN rows |-> [rows[t] EXCEPT !.status = status, !.last_heartbeat = stamp]]
UpdateSites(rows, status, siteId, stamp) ==
  IF siteId \in DOMAIN rows
    THEN [rows EXCEPT ![siteId].status = status, ![siteId].last_heartbeat = stamp]
    ELSE rows

\* The callback of tick n resumes with the result of testSiteConnection: the
\* UPDATE, then emit('site:heartbeat', { siteId, status }).  The callback has no
\* try of its own: an error of the UPDATE (or one testSiteConnection would let
\* through) rejects its promise, which nothing handles, and the emit is not
\* reached.  last_heartbeat counts the writes: a timestamp that only grows.
HeartbeatDone(s, n) ==
  /\ n \in pending[s]
  /\ \E ans \in Answers, dbSelect \in BOOLEAN, dbUpdate \in BOOLEAN :
       LET status == testSiteConnection(s, dbSelect, ans)
       IN IF status.threw
            THEN /\ unhandled' = unhandled \cup {"probe"}
                 /\ UNCHANGED <<sites, events>>
            ELSE IF ~dbUpdate
              THEN /\ unhandled' = unhandled \cup {"database"}
                   /\ UNCHANGED <<sites, events>>
              ELSE /\ sites' = UpdateSites(sites, StatusOf(status.connected), s,
                                           Len(events[s]) + 1)
                   /\ events' = [events EXCEPT ![s] = Append(@, status.connected)]
                   /\ unhandled' = unhandled
  /\ pending' = [pending EXCEPT ![s] = @ \ {n}]
  /\ UNCHANGED <<heartbeat, ticks, probe>>
  /\ UNCHANGED <<orchVars, sideVars>>

\* POST /api/sites/:id/test-connection: res.json(status), or status 500 when
\* testSiteConnection throws.  known, dbOk and ans keep what the probe met.
TestRoute ==
  /\ \E siteId \in SiteIds, dbOk \in BOOLEAN, ans \in Answers :
       LET status == testSiteConnection(siteId, dbOk, ans)
       IN probe' = [siteId |-> siteId, known |-> siteId \in DOMAIN sites, dbOk |-> dbOk,
                    ans |-> ans, connected |-> status.connected /\ ~status.threw,
                    code |-> IF status.threw THEN 500 ELSE 200]
  /\ UNCHANGED <<sites, heartbeat, ticks, pending, events, unhandled>>
  /\ UNCHANGED <<orchVars, sideVars>>

\* ------------------------------------------------------ management tokens
\* expiresAt.setDate(expiresAt.getDate() + 30)
TokenLifetime == 30

ExpiresAt(t) == t + TokenLifetime

\* Secrets are crypto.randomBytes(32): each issue draws one no row holds yet.
\* Secrets are numbered in the order of issue; MaxTokens + 1 is never issued.
Tokens == 1..(MaxTokens + 1)

\* POST /api/sites/:id/tokens: INSERT INTO site_management_tokens (site_id, token,
\* permissions, expires_at, created_at).  site_id references sites; a refused
\* INSERT throws and the route answers 500, the table as it was.
generateManagementToken ==
  /\ Cardinality(site_management_tokens) < MaxTokens
  /\ \E siteId \in SiteIds, dbOk \in BOOLEAN :
       site_management_tokens' =
         IF dbOk /\ siteId \in DOMAIN sites
           THEN site_management_tokens \cup
                  {[site_id |-> siteId, token |-> Cardinality(site_management_tokens) + 1,
                    expires_at |-> ExpiresAt(now), created_at |-> now]}
           ELSE site_management_tokens
  /\ UNCHANGED <<now, verified>>
  /\ UNCHANGED <<sites, orchVars, monVars, probeVars, devVars, envVars, plugVars>>

\* A day passes.
AdvanceClock ==
  /\ now < MaxDays
  /\ now' = now + 1
  /\ UNCHANGED <<site_management_tokens, verified>>
  /\ UNCHANGED <<sites, orchVars, monVars, probeVars, devVars, envVars, plugVars>>

\* WHERE site_id = $1 AND token = $2
TokenRow_anySite(r, siteId, token) == r.token = token
TokenRow(r, siteId, token) == r.site_id = siteId /\ r.token = token

\* AND expires_at > NOW()
NotExpired_inclusive(r, t) == r.expires_at >= t
NotExpired(r, t) == r.expires_at > t

\* catch (error) { ...; return false; }
VerifyCatch_rethrow(error) == [value |-> FALSE, threw |-> TRUE]
VerifyCatch(error) == [value |-> FALSE, threw |-> FALSE]

\* What stands between the presented token and acceptance, read off the table.
WhyRejected(rows, siteId, token, t) ==
  IF \A r \in rows : r.token # token THEN "absent"
  ELSE IF \A r \in rows : r.token = token => r.site_id # siteId THEN "othersite"
  ELSE IF \A r \in rows : (r.token = token /\ r.site_id = siteId) => t >= r.expires_at
    THEN "expired"
  ELSE "ok"

\* verifyManagementToken(siteId, token): the SELECT and result.rows.length > 0,
\* false when the query throws.
verifyManagementToken ==
  /\ verified.pc = "idle"
  /\ \E siteId \in SiteIds, token \in Tokens, dbOk \in BOOLEAN :
       LET rows == {r \in site_management_tokens :
                      TokenRow(r, siteId, token) /\ NotExpired(r, now)}
           ret == IF dbOk THEN [value |-> rows # {}, threw |-> FALSE]
                  ELSE VerifyCatch("database error")
       IN verified' = [pc |-> "done", siteId |-> siteId, token |-> token, dbOk |-> dbOk,
                       why |-> WhyRejected(site_management_tokens, siteId, token, now),
                       value |-> ret.value, threw |-> ret.threw]
  /\ UNCHANGED <<site_management_tokens, now>>
  /\ UNCHANGED <<sites, orchVars, monVars, probeVars, devVars, envVars, plugVars>>

\* The caller takes the result.
VerifyReturn ==
  /\ verified.pc = "done"
  /\ verified' = NoVerify
  /\ UNCHANGED <<site_management_tokens, now>>
  /\ UNCHANGED <<sites, orchVars, monVars, probeVars, devVars, envVars, plugVars>>

\* ------------------------------------------------------- MikrotikManager
\* The device client of the local controller.  Its calls are made one after
\* another; each is cut at its HTTP requests.
\* Date.now() - this.cache.lastUpdate < 5 * 60 * 1000
CacheTtl == 5 * 60 * 1000

\* Date.now() advances in steps of half the TTL, from a time at which the
\* lastUpdate of the constructor, 0, is at least a TTL ago.
ClockStep == CacheTtl \div 2
DevStart == CacheTtl

\* this.cache = { users: null, queues: null, aps: null, lastUpdate: 0 }.  An
\* entry that is set holds the list; fetched (the time its GET was answered) and
\* old (a call that began after the entry was cached has sent a mutating request
\* for its list) are not fields of the code.
Null == [set |-> FALSE, list |-> {}, fetched |-> 0, old |-> FALSE]

IdleDev ==
  [pc |-> "idle", fn |-> "none", kind |-> "none", username |-> "", got |-> "none",
   cached |-> FALSE, age |-> 0, stale |-> FALSE, had |-> FALSE, success |-> FALSE,
   error |-> ""]

ListMethods == {"getHotspotUsers", "getQueues", "getAccessPoints"}

\* The list of the controller a GET returns.
RouterList(kind) ==
  IF kind = "users" THEN router.users
  ELSE IF kind = "queues" THEN router.queues
  ELSE {"wlan1"}

\* if (this.cache.<kind> && Date.now() - this.cache.lastUpdate < 5 * 60 * 1000)
CacheFresh(kind) == cache[kind].set /\ devNow - cache.lastUpdate < CacheTtl

\* this.cache.lastUpdate = Date.now(): a statement of getHotspotUsers only.
SetsLastUpdate(kind) == kind = "users"

\* throw new Error(`User not found: ${username}`) and
\* throw new Error(`Queue not found for user: ${username}`)
NotFoundError(kind) == IF kind = "users" THEN "User not found" ELSE "Queue not found for user"

\* The call returned or threw: dev holds the outcome.
DevDone(d, success, error) ==
  [d EXCEPT !.pc = "done", !.success = success, !.error = error]

\* users.find((u) => u.name === username) in updateHotspotUser and
\* deleteHotspotUser, queues.find(...) in updateQueueBandwidth and deleteQueue:
\* a missing name throws, a found one leads to the PUT or DELETE.
AfterFind(d, list) ==
  IF d.username \in list THEN [d EXCEPT !.pc = "call"]
  ELSE DevDone(d, FALSE, NotFoundError(d.kind))

\* A list call up to its first await: the cached list is returned when fresh,
\* otherwise the GET is sent.
ListStart(d) ==
  IF CacheFresh(d.kind)
    THEN [d EXCEPT !.got = "cache", !.cached = TRUE,
                   !.age = devNow - cache[d.kind].fetched, !.stale = cache[d.kind].old]
    ELSE [d EXCEPT !.pc = "get"]

\* getHotspotUsers(), getQueues(), getAccessPoints() called by a client.
ListCall(fn, kind) ==
  /\ dev.pc = "idle"
  /\ LET d == ListStart([IdleDev EXCEPT !.fn = fn, !.kind = kind])
     IN dev' = IF d.got = "cache" THEN DevDone(d, TRUE, "") ELSE d
  /\ UNCHANGED <<router, cache, devNow>>
  /\ UNCHANGED <<sites, orchVars, monVars, probeVars, tokVars, envVars, plugVars>>

getHotspotUsers == ListCall("getHotspotUsers", "users")
getQueues == ListCall("getQueues", "queues")
getAccessPoints == ListCall("getAccessPoints", "aps")

\* createHotspotUser and createQueue: the POST is sent.  had keeps whether the
\* entry of the list was set, so cached, before the call.
CreateCall(fn, kind) ==
  /\ dev.pc = "idle"
  /\ \E username \in Usernames :
       dev' = [IdleDev EXCEPT !.fn = fn, !.kind = kind, !.username = username,
                              !.pc = "call", !.had = cache[kind].set]
  /\ UNCHANGED <<router, cache, devNow>>
  /\ UNCHANGED <<sites, orchVars, monVars, probeVars, tokVars, envVars, plugVars>>

createHotspotUser == CreateCall("createHotspotUser", "users")
createQueue == CreateCall("createQueue", "queues")

\* updateHotspotUser, deleteHotspotUser, updateQueueBandwidth and deleteQueue:
\* the list call that resolves the name, and the find when it returned at once.
ResolveCall(fn, kind) ==
  /\ dev.pc = "idle"
  /\ \E username \in Usernames :
       LET d == ListStart([IdleDev EXCEPT !.fn = fn, !.kind = kind, !.username = username,
                                          !.had = cache[kind].set])
       IN dev' = IF d.got = "cache" THEN AfterFind(d, cache[kind].list) ELSE d
  /\ UNCHANGED <<router, cache, devNow>>
  /\ UNCHANGED <<sites, orchVars, monVars, probeVars, tokVars, envVars, plugVars>>

updateHotspotUser == ResolveCall("updateHotspotUser", "users")
deleteHotspotUser == ResolveCall("deleteHotspotUser", "users")
updateQueueBandwidth == ResolveCall("updateQueueBandwidth", "queues")
deleteQueue == ResolveCall("deleteQueue", "queues")

\* The GET of a list call is answered or fails.  An answer is stored in the
\* cache and returned; a failure is caught and the empty list returned:
\* catch (error) { ...; return []; }
DevGetDone ==
  /\ dev.pc = "get"
  /\ \E ans \in Answers :
       LET ok == ans = "ok"
           list == IF ok THEN RouterList(dev.kind) ELSE {}
           d == [dev EXCEPT !.got = IF ok THEN "fetched" ELSE "failed",
                            !.had = @ /\ ~ok]
       IN /\ cache' = IF ok
                        THEN [cache EXCEPT
                                ![dev.kind] = [set |-> TRUE, list |-> list,
                                               fetched |-> devNow, old |-> FALSE],
                                !.lastUpdate = IF SetsLastUpdate(dev.kind) THEN devNow ELSE @]
                        ELSE cache
          /\ dev' = IF dev.fn \in ListMethods THEN DevDone(d, TRUE, "")
                    ELSE AfterFind(d, list)
  /\ UNCHANGED <<router, devNow>>
  /\ UNCHANGED <<sites, orchVars, monVars, probeVars, tokVars, envVars, plugVars>>

\* What a confirmed POST, PUT or DELETE leaves on the controller.
Mutated(fn, names, username) ==
  IF fn \in {"createHotspotUser", "createQueue"} THEN names \cup {username}
  ELSE IF fn \in {"deleteHotspotUser", "deleteQueue"} THEN names \ {username}
  ELSE names

\* The POST, PUT or DELETE of a mutating call is answered or fails.  After an
\* answer: this.cache.users = null (this.cache.queues = null) and the return;
\* a failure is rethrown from the catch, where nothing touches the cache.  A
\* request that timed out may or may not have been applied.
DevCallDone ==
  /\ dev.pc = "call"
  /\ \E ans \in Answers, applied \in BOOLEAN :
       LET names == router[dev.kind]
           creates == dev.fn \in {"createHotspotUser", "createQueue"}
           accepted == IF creates THEN dev.username \notin names ELSE dev.username \in names
           ok == ans = "ok" /\ accepted
       IN /\ (applied => (ans = "timeout" /\ accepted))
          /\ router' = IF ok \/ applied
                         THEN [router EXCEPT ![dev.kind] = Mutated(dev.fn, @, dev.username)]
                         ELSE router
          /\ cache' = IF ok THEN [cache EXCEPT ![dev.kind] = Null]
                      ELSE [cache EXCEPT ![dev.kind].old = @ \/ dev.had]
          /\ dev' = IF ok THEN DevDone(dev, TRUE, "")
                    ELSE DevDone(dev, FALSE, AxiosError(IF ans = "ok" THEN "error" ELSE ans))
  /\ UNCHANGED <<devNow>>
  /\ UNCHANGED <<sites, orchVars, monVars, probeVars, tokVars, envVars, plugVars>>

\* The caller takes the result.
DevReturn ==
  /\ dev.pc = "done"
  /\ dev' = IdleDev
  /\ UNCHANGED <<router, cache, devNow>>
  /\ UNCHANGED <<sites, orchVars, monVars, probeVars, tokVars, envVars, plugVars>>

\* Time passes.
AdvanceDev ==
  /\ devNow < DevStart + MaxClockSteps * ClockStep
  /\ devNow' = devNow + ClockStep
  /\ UNCHANGED <<router, cache, dev>>
  /\ UNCHANGED <<sites, orchVars, monVars, probeVars, tokVars, envVars, plugVars>>

\* --------------------------------------------------------- PluginManager
\* backend/core/PluginManager.js.  loadPlugin calls are made one after another
\* (as loadAllPlugins makes them); a call is cut at `await plugin.init()`.
PluginNames == {"billing", "reports"}
HookNames == {"user:login"}

\* Version strings and dependency requirements, as sequences of characters.
Versions == {<<"1", ".", "0">>, <<"2", ".", "0">>}
Requirements == {<<"*">>, <<"1">>, <<"2", ".", "0">>}

\* What a plugin directory holds: plugin.json (manifest is FALSE when it is
\* missing, unreadable or lacks name or version), the main file, and what the
\* instance of the plugin class carries: hooks, routes, middleware, init.
DependencySets ==
  {{}} \cup {{d} : d \in [name : PluginNames, requirement : Requirements]}

NoManifest ==
  [manifest |-> FALSE, name |-> "", version |-> <<>>, dependencies |-> {},
   main |-> FALSE, hooks |-> {}, routes |-> FALSE, middleware |-> FALSE, init |-> FALSE]

Packages ==
  {NoManifest} \cup
  [manifest : {TRUE}, name : PluginNames, version : Versions,
   dependencies : DependencySets, main : BOOLEAN, hooks : SUBSET HookNames,
   routes : BOOLEAN, middleware : BOOLEAN, init : BOOLEAN]

IdleLoad ==
  [pc |-> "idle", name |-> "", threw |-> FALSE, error |-> "", before |-> <<>>, n |-> 0]

\* version.startsWith(requirement)
StartsWith(version, requirement) ==
  /\ Len(requirement) <= Len(version)
  /\ SubSeq(version, 1, Len(requirement)) = requirement

\* if (requirement === '*') return true;
\* return version === requirement || version.startsWith(requirement);
versionMatches(version, requirement) ==
  IF requirement = <<"*">> THEN TRUE
  ELSE version = requirement \/ StartsWith(version, requirement)

\* checkPluginDependencies: the error it throws, or "ok".
checkPluginDependencies(dependencies) ==
  IF \E d \in dependencies : d.name \notin DOMAIN plugins
    THEN "Plugin dependency not found"
  ELSE IF \E d \in dependencies :
            ~versionMatches(plugins[d.name].version, d.requirement)
    THEN "Plugin version mismatch"
  ELSE "ok"

\* registerHook(pluginName, hookName, hookFn)
registerHook(hs, pluginName, hookName) ==
  [h \in DOMAIN hs \cup {hookName} |->
     IF h = hookName
       THEN Append(IF h \in DOMAIN hs THEN hs[h] ELSE <<>>, pluginName)
       ELSE hs[h]]

\* Object.entries(plugin.hooks).forEach(([hookName, hookFn]) => registerHook(...))
RECURSIVE RegisterHooks(_, _, _)
RegisterHooks(hs, pluginName, names) ==
  IF names = {} THEN hs
  ELSE LET h == CHOOSE x \in names : TRUE
       IN RegisterHooks(registerHook(hs, pluginName, h), pluginName, names \ {h})

\* this.plugins.set(manifest.name, { manifest, path, instance, status: 'active' })
StorePlugin(ps, pkg) ==
  [q \in DOMAIN ps \cup {pkg.name} |->
     IF q = pkg.name THEN [version |-> pkg.version, status |-> "active"] ELSE ps[q]]

\* The manager's registrations, as one value.
ManagerState == [plugins |-> plugins, hooks |-> hooks, routes |-> routes,
                 middleware |-> middleware]

\* What stops loadPlugin before the plugin instance exists, or "ok": the
\* manifest, the dependencies, the main file, then require and the constructor.
LoadError(pkg, constructed) ==
  IF ~pkg.manifest THEN "Could not load plugin manifest"
  ELSE IF checkPluginDependencies(pkg.dependencies) # "ok"
    THEN checkPluginDependencies(pkg.dependencies)
  ELSE IF ~pkg.main THEN "Plugin main file not found"
  ELSE IF ~constructed THEN "plugin constructor threw"
  ELSE "ok"

\* loadPlugin(pluginPath) up to `await plugin.init()`: hooks, routes and
\* middleware are registered and the plugin is stored, then init is called; a
\* plugin without init returns here.
loadPlugin ==
  /\ load.pc = "idle" /\ load.n < MaxLoads
  /\ \E pkg \in Packages, constructed \in BOOLEAN :
       LET err == LoadError(pkg, constructed)
       IN IF err # "ok"
            THEN /\ load' = [pc |-> "done", name |-> pkg.name, threw |-> TRUE,
                             error |-> err, before |-> ManagerState, n |-> load.n + 1]
                 /\ UNCHANGED <<plugins, hooks, routes, middleware>>
            ELSE /\ hooks' = RegisterHooks(hooks, pkg.name, pkg.hooks)
                 /\ routes' = IF pkg.routes THEN Append(routes, pkg.name) ELSE routes
                 /\ middleware' = IF pkg.middleware THEN Append(middleware, pkg.name)
                                  ELSE middleware
                 /\ plugins' = StorePlugin(plugins, pkg)
                 /\ load' = [pc |-> IF pkg.init THEN "init" ELSE "done",
                             name |-> pkg.name, threw |-> FALSE, error |-> "",
                             before |-> ManagerState, n |-> load.n + 1]
  /\ UNCHANGED <<sites, orchVars, monVars, probeVars, tokVars, devVars, envVars>>

\* `await plugin.init()` settles: loadPlugin returns { name, version, status },
\* or the catch logs the error of init and rethrows it.
InitSettles ==
  /\ load.pc = "init"
  /\ \E ok \in BOOLEAN :
       load' = [load EXCEPT !.pc = "done", !.threw = ~ok,
                            !.error = IF ok THEN "" ELSE "plugin init threw"]
  /\ UNCHANGED <<plugins, hooks, routes, middleware>>
  /\ UNCHANGED <<sites, orchVars, monVars, probeVars, tokVars, devVars, envVars>>

\* The caller takes the result or catches the error (loadAllPlugins logs a
\* warning and goes to the next plugin).
LoadReturn ==
  /\ load.pc = "done"
  /\ load' = [IdleLoad EXCEPT !.n = load.n]
  /\ UNCHANGED <<plugins, hooks, routes, middleware>>
  /\ UNCHANGED <<sites, orchVars, monVars, probeVars, tokVars, devVars, envVars>>

\* -------------------------------------------------------- specifications
Init ==
  /\ sites = <<>>
  /\ remote_users = [s \in SiteIds |-> [u \in Usernames |-> <<>>]]
  /\ hotspot = [s \in SiteIds |-> {}]
  /\ queue = [s \in SiteIds |-> <<>>]
  /\ frame = [p \in Procs |-> NoFrame]
  /\ fan = IdleFan
  /\ op = IdleOp
  /\ heartbeat = {}
  /\ ticks = [s \in SiteIds |-> 0]
  /\ pending = [s \in SiteIds |-> {}]
  /\ events = [s \in SiteIds |-> <<>>]
  /\ probe = NoProbe
  /\ unhandled = {}
  /\ site_management_tokens = {}
  /\ now = 0
  /\ verified = NoVerify
  /\ router = [users |-> {}, queues |-> {}]
  /\ cache = [users |-> Null, queues |-> Null, aps |-> Null, lastUpdate |-> 0]
  /\ devNow = DevStart
  /\ dev = IdleDev
  /\ silent = {}
  /\ plugins = <<>>
  /\ hooks = <<>>
  /\ routes = <<>>
  /\ middleware = <<>>
  /\ load = IdleLoad

\* The orchestrator: fan-outs against the registered sites, with the routers'
\* administrators acting beside them.
Next ==
  \/ RegisterRoute
  \/ createUserAcrossMultipleSites
  \/ updateBandwidthAcrossMultipleSites
  \/ FanReply
  \/ ControllerAdmin
  \/ createRemoteUser_post("fan")
  \/ createRemoteUser_insert("fan")
  \/ updateRemoteQueueBandwidth_get("fan")
  \/ updateRemoteQueueBandwidth_put("fan")

Spec == Init /\ [][Next]_vars

\* The creating fan-out against controllers that may stop answering.  Every await of a
\* fan-out settles: a request by the answer or by its timeout, a database
\* statement by its result; the event loop then runs the continuation.  The
\* callers, the administrators and the controllers are under no obligation.
FanStep ==
  \/ createRemoteUser_post("fan")
  \/ createRemoteUser_insert("fan")

NextLive ==
  \/ RegisterRoute
  \/ createUserAcrossMultipleSites
  \/ FanReply
  \/ ControllerSilence
  \/ FanStep

SpecLive == Init /\ [][NextLive]_vars /\ WF_vars(FanStep)

\* The single-site routes: one request at a time against the registered sites.
NextSite ==
  \/ RegisterRoute
  \/ SiteRoute
  \/ SiteReply
  \/ ControllerAdmin
  \/ createRemoteUser_post("op")
  \/ createRemoteUser_insert("op")
  \/ updateRemoteUser_get("op")
  \/ updateRemoteUser_put("op")
  \/ updateRemoteUser_update("op")
  \/ deleteRemoteUser_get("op")
  \/ deleteRemoteUser_delete("op")
  \/ deleteRemoteUser_remove("op")
  \/ updateRemoteQueueBandwidth_get("op")
  \/ updateRemoteQueueBandwidth_put("op")

SpecSite == Init /\ [][NextSite]_vars

\* The connectivity monitor: registration and the heartbeat of every site.
NextMon ==
  \/ RegisterRoute
  \/ \E s \in SiteIds : HeartbeatTick(s)
  \/ \E s \in SiteIds, n \in 1..MaxTicks : HeartbeatDone(s, n)

SpecMon == Init /\ [][NextMon]_vars

\* The monitor together with the callers of the probe.
NextProbe ==
  \/ RegisterRoute
  \/ \E s \in SiteIds : HeartbeatTick(s)
  \/ \E s \in SiteIds, n \in 1..MaxTicks : HeartbeatDone(s, n)
  \/ TestRoute

SpecProbe == Init /\ [][NextProbe]_vars

\* The monitor together with the sync of a user to all sites.
NextSync ==
  \/ RegisterRoute
  \/ \E s \in SiteIds : ticks[s] < MaxSyncTicks /\ HeartbeatTick(s)
  \/ \E s \in SiteIds, n \in 1..MaxTicks : HeartbeatDone(s, n)
  \/ syncUserAcrossAllSites
  \/ FanReply
  \/ createRemoteUser_post("fan")
  \/ createRemoteUser_insert("fan")

SpecSync == Init /\ [][NextSync]_vars

\* The token issuer: sites are registered, tokens issued and verified as the
\* days pass.
NextTok ==
  \/ RegisterRoute
  \/ generateManagementToken
  \/ AdvanceClock
  \/ verifyManagementToken
  \/ VerifyReturn

SpecTok == Init /\ [][NextTok]_vars

\* The device client of the local controller.
NextDev ==
  \/ getHotspotUsers
  \/ getQueues
  \/ getAccessPoints
  \/ createHotspotUser
  \/ updateHotspotUser
  \/ deleteHotspotUser
  \/ createQueue
  \/ updateQueueBandwidth
  \/ deleteQueue
  \/ DevGetDone
  \/ DevCallDone
  \/ DevReturn
  \/ AdvanceDev

SpecDev == Init /\ [][NextDev]_vars

\* The plugin manager: plugins loaded one after another.
NextPlug ==
  \/ loadPlugin
  \/ InitSettles
  \/ LoadReturn

SpecPlug == Init /\ [][NextPlug]_vars

\* ============================================================ properties

Successes(results, siteId) ==
  Cardinality({k \in DOMAIN results : results[k].siteId = siteId /\ results[k].success})

C2_FailureStep ==
  (/\ fan.pc = "loop"
   /\ Len(fan'.results) = Len(fan.results) + 1
   /\ ~fan'.results[Len(fan'.results)].success)
  => LET s == fan.siteIds[fan.i]
         n == Len(fan.siteIds)
     IN /\ fan'.results[Len(fan'.results)].siteId = s
        /\ fan'.i = fan.i + 1
        /\ fan'.siteIds = fan.siteIds
        /\ fan.i < n => /\ fan'.pc = "loop"
                        /\ frame'["fan"] = NewFrame(fan.fn, fan.siteIds[fan.i + 1],
                                                    fan.username, fan.bw, {})
        /\ fan.i = n => fan'.pc = "done"
        /\ sites' = sites
        /\ \A t \in SiteIds \ {s} :
             /\ hotspot'[t] = hotspot[t]
             /\ queue'[t] = queue[t]
             /\ remote_users'[t] = remote_users[t]

C2_FailureLeavesOthersAlone == [][C2_FailureStep]_vars

\* The first requested site failed after an HTTP request and the second,
\* another site, succeeded.
C2_Witness ==
  /\ fan.pc = "done" /\ Len(fan.results) = 2
  /\ fan.siteIds[1] # fan.siteIds[2]
  /\ ~fan.results[1].success /\ fan.results[1].http > 0
  /\ fan.results[2].success

\* C3: deleteRemoteUser of a username the router does not hold returns success.
C3_DeleteAbsentSucceeds ==
  (op.pc = "done" /\ op.fn = "deleteRemoteUser" /\ op.absent) => op.success

\* C4: in a create fan-out, a branch whose device call was not confirmed is
\* recorded as a failure and writes nothing to the mirror: the rows of
\* (site, username) are those the fan-out found plus one per success recorded
\* for that site, so a site without a success holds what it held before.
C4_MirrorOnlyUnderSuccess ==
  (fan.fn = "createRemoteUser" /\ fan.pc \in {"loop", "done"}) =>
    /\ \A k \in DOMAIN fan.results : ~fan.results[k].confirmed => ~fan.results[k].success
    /\ \A s \in SiteIds :
         LET rows == remote_users[s][fan.username]
             rows0 == fan.mirror0[s][fan.username]
         IN /\ Len(rows) = Len(rows0) + Successes(fan.results, s)
            /\ SubSeq(rows, 1, Len(rows0)) = rows0

\* A create fan-out over two sites returned: one site answered and holds the
\* only mirror row, the other failed at its device call and holds none.
C4_Witness ==
  /\ fan.fn = "createRemoteUser" /\ fan.pc = "done" /\ Len(fan.results) = 2
  /\ \E a, b \in SiteIds :
       /\ a # b
       /\ fan.results[1].siteId = a /\ fan.results[1].success
       /\ fan.results[2].siteId = b /\ ~fan.results[2].success /\ fan.results[2].http > 0
       /\ Len(remote_users[a][fan.username]) = 1
       /\ remote_users[b][fan.username] = <<>>

\* C5: the mirror is written only after the router confirmed the operation, and
\* whenever the router confirmed a create, update or delete (the database being
\* available) the mirror reflects it and the outcome is success.
C5_ConfirmedMeansMirroredAndSuccess ==
  (op.pc = "done" /\ op.fn \in {"createRemoteUser", "updateRemoteUser", "deleteRemoteUser"}) =>
    /\ (op.success /\ ~op.absent) => op.confirmed
    /\ (op.confirmed /\ op.dbOk) => op.success
    /\ (op.success /\ op.fn = "createRemoteUser") => remote_users[op.siteId][op.username] # <<>>
    /\ (op.success /\ op.fn = "deleteRemoteUser") => remote_users[op.siteId][op.username] = <<>>

\* C6: a sync attempts every site whose status was online or never probed
\* ('active', the status registration gives) when it read the registry.
C6_SyncCoversOnlineAndUnknown ==
  fan.via = "sync" =>
    \A s \in DOMAIN fan.snapshot :
      fan.snapshot[s] \in {"online", "active"} => \E k \in DOMAIN fan.siteIds : fan.siteIds[k] = s

\* C7: the result of a sync holds an explicit entry for a site that was offline
\* when the sync read the registry: exactly one entry, a SiteOffline failure,
\* made without an HTTP request.
C7_OfflineSiteGetsExplicitFailure ==
  (fan.via = "sync" /\ fan.pc = "done") =>
    \A s \in DOMAIN fan.snapshot :
      fan.snapshot[s] = "offline" =>
        /\ Cardinality({k \in DOMAIN fan.results : fan.results[k].siteId = s}) = 1
        /\ \A k \in DOMAIN fan.results :
             fan.results[k].siteId = s =>
               /\ ~fan.results[k].success
               /\ fan.results[k].error = "SiteOffline"
               /\ fan.results[k].http = 0

\* C8: the stored status of a site is 'active' (unknown) until its first
\* heartbeat tick completes, and after every completed tick (one whose callback
\* ran to its emit) it is online iff that tick's probe succeeded and offline iff
\* it failed.
C8_StatusFollowsLastProbe ==
  \A s \in DOMAIN sites :
    IF events[s] = <<>>
      THEN sites[s].status = "active"
      ELSE sites[s].status = (IF events[s][Len(events[s])] THEN "online" ELSE "offline")

\* A remote site went Unknown, Online, Offline and is Online again.
C8_Witness ==
  \E s \in DOMAIN sites :
    /\ events[s] = <<TRUE, FALSE, TRUE>>
    /\ sites[s].status = "online"

\* C9: the monitor emits an event only when the status changes: no two
\* consecutive events of a site carry the same reachability.
C9_EventOnlyOnChange ==
  \A s \in SiteIds :
    \A k \in 1..(Len(events[s]) - 1) : events[s][k] # events[s][k + 1]

\* C10: while a probe of site a is in flight, the timer of any other monitored
\* site b can still fire and every probe of b in flight can still complete and
\* write b's status.
C10_ProbesIndependent ==
  \A a, b \in SiteIds :
    (a # b /\ pending[a] # {} /\ b \in heartbeat) =>
      /\ ticks[b] < MaxTicks => ENABLED HeartbeatTick(b)
      /\ \A n \in pending[b] : ENABLED HeartbeatDone(b, n)

\* The first probe of one site is still in flight while another site has started
\* and completed all its ticks.
C10_Witness ==
  \E a, b \in SiteIds :
    /\ a # b
    /\ pending[a] = {1} /\ ticks[a] = 1
    /\ ticks[b] = MaxTicks /\ Len(events[b]) = MaxTicks

\* C11: a heartbeat tick of site s writes the status and last_heartbeat of s and
\* nothing else: the status or last_heartbeat of a site changes only in its own
\* tick, site_type never changes, the step that completes a tick of s leaves the
\* row of every other site as it was, and a tick whose probe failed or timed out
\* leaves s offline.
C11_TickStep ==
  \A s \in DOMAIN sites :
    /\ s \in DOMAIN sites'
    /\ sites'[s].site_type = sites[s].site_type
    /\ DOMAIN sites'[s] = DOMAIN sites[s]
    /\ sites'[s] # sites[s] => events'[s] # events[s]
    /\ events'[s] # events[s] =>
         /\ \A t \in DOMAIN sites \ {s} : sites'[t] = sites[t]
         /\ events'[s] = Append(events[s], FALSE) => sites'[s].status = "offline"

C13_VerifyStep ==
  (verified.pc = "idle" /\ verified'.pc = "done") =>
    LET valid == \E r \in site_management_tokens :
                   /\ r.token = verified'.token
                   /\ r.site_id = verified'.siteId
                   /\ now < r.expires_at
    IN /\ verified'.value => valid
       /\ (valid /\ verified'.dbOk) => verified'.value
       /\ verified'.value =>
            \A r \in site_management_tokens :
              r.token = verified'.token => r.site_id = verified'.siteId

C14_Lifetime ==
  \A r \in site_management_tokens : r.expires_at = r.created_at + 30

C14_Step ==
  /\ now' >= now
  /\ \A r \in site_management_tokens : r \in site_management_tokens'
  /\ \A r, q \in site_management_tokens' : r.token = q.token => r = q
  /\ (verified.pc = "idle" /\ verified'.pc = "done") =>
       \A r \in site_management_tokens :
         (r.token = verified'.token /\ r.site_id = verified'.siteId) =>
           /\ now >= r.expires_at => ~verified'.value
           /\ (now < r.expires_at /\ verified'.dbOk) => verified'.value

C15_RejectionIsPlainFalse ==
  verified.pc = "done" =>
    /\ ~verified.threw
    /\ verified.why \in {"absent", "othersite", "expired"} =>
         [value |-> verified.value, threw |-> verified.threw]
           = [value |-> FALSE, threw |-> FALSE]

\* An expired token was refused while the query could not even be answered.
C15_Witness ==
  /\ verified.pc = "done" /\ verified.why = "expired" /\ ~verified.dbOk
  /\ ~verified.value /\ ~verified.threw

\* C16: a fan-out route answers 200 when its request is well formed, however
\* many of the named sites failed, and a status that is not 2xx when the request
\* is malformed: it has no siteIds list, or the list is empty.
C16_ReplyCodeFollowsRequestShape ==
  (fan.pc = "idle" /\ fan.code # 0) =>
    LET wellFormed == ~fan.malformed /\ fan.requested > 0
    IN /\ wellFormed => fan.code = 200
       /\ ~wellFormed => fan.code \notin 200..299

\* C17: a list call that follows a mutating call on its list (one that sent its
\* POST, PUT or DELETE) does not return a list that was cached before the
\* mutating call was made.
C17_NoListCachedBeforeMutation ==
  (dev.pc = "done" /\ dev.fn \in ListMethods /\ dev.cached) => ~dev.stale

\* C18: a list a list call returns from the cache was fetched from the
\* controller less than 5 minutes before.
C18_CachedListYoungerThanTtl ==
  (dev.pc = "done" /\ dev.fn \in ListMethods /\ dev.cached) => dev.age < 5 * 60 * 1000

\* C19: updateHotspotUser and updateQueueBandwidth fail with 'not found' only
\* when the list was obtained (from the controller, or from the cache) and lacks
\* the name; when the list call failed or timed out they do not report the name
\* as not found.
C19_NotFoundOnlyWithList ==
  (dev.pc = "done" /\ dev.fn \in {"updateHotspotUser", "updateQueueBandwidth"}) =>
    /\ dev.error \in {"User not found", "Queue not found for user"} =>
         dev.got \in {"cache", "fetched"}
    /\ dev.got = "failed" =>
         dev.error \notin {"User not found", "Queue not found for user"}

\* C20: when the second of two successful bandwidth changes of one fan-out for
\* the same user on the same site completes, every row the mirror holds for
\* (site, username) carries the bandwidth of that change, whatever other
\* requests ran in between.
C20_Step ==
  (/\ fan.fn = "updateRemoteQueueBandwidth" /\ fan.pc = "loop"
   /\ Len(fan'.results) = Len(fan.results) + 1
   /\ fan'.results[Len(fan'.results)].success
   /\ \E j \in DOMAIN fan.results :
        /\ fan.results[j].success
        /\ fan.results[j].siteId = fan'.results[Len(fan'.results)].siteId) =>
    LET s == fan'.results[Len(fan'.results)].siteId
        rows == remote_users'[s][fan.username]
    IN \A r \in DOMAIN rows : rows[r] = fan.bw

C20_MirrorReflectsLaterChange == [][C20_Step]_vars

\* `for (const siteId of siteIds) { ... await this.createRemoteUser(siteId, ...) }`:
\* the call for the k-th requested id has been made once the loop has reached k.
Dispatched(k) == k <= fan.i

\* C21: the calls of a fan-out are dispatched together: while the fan-out waits
\* for the controller of one requested site (a registered remote site, whose
\* call may take its full timeout), the call to every other requested site has
\* been dispatched too, none waits for another to complete.
C21_AllBranchesDispatched ==
  (fan.pc = "loop" /\ SiteCheck(fan.siteIds[fan.i]) = "ok") =>
    \A k \in DOMAIN fan.siteIds : Dispatched(k)

C23_Step ==
  (/\ fan.fn = "createRemoteUser" /\ fan.pc = "loop"
   /\ Len(fan'.results) = Len(fan.results) + 1
   /\ fan.siteIds[fan.i] \in DOMAIN sites
   /\ sites[fan.siteIds[fan.i]].site_type = "local") =>
    fan'.results[Len(fan'.results)].success

C23_LocalSiteProvisioned == [][C23_Step]_vars

\* C24: the step of a fan-out that records the outcome for a site id no row of
\* sites carries records the failure 'Site not found' without having sent any
\* request (no router is touched), and the fan-out goes on: the call for the
\* next requested id starts, or the result list is complete.  (The SELECT of
\* callSiteAPI is taken to be answered.)
C24_Step ==
  (/\ fan.pc = "loop"
   /\ Len(fan'.results) = Len(fan.results) + 1
   /\ fan.siteIds[fan.i] \notin DOMAIN sites) =>
    LET e == fan'.results[Len(fan'.results)]
        n == Len(fan.siteIds)
    IN /\ e.siteId = fan.siteIds[fan.i]
       /\ ~e.success /\ e.error = "Site not found"
       /\ e.http = 0
       /\ hotspot' = hotspot /\ queue' = queue /\ remote_users' = remote_users
       /\ fan'.results = Append(fan.results, e)
       /\ IF fan.i < n
            THEN /\ fan'.pc = "loop" /\ fan'.i = fan.i + 1
                 /\ frame'["fan"] = NewFrame(fan.fn, fan.siteIds[fan.i + 1],
                                             fan.username, fan.bw, {})
            ELSE fan'.pc = "done" /\ Len(fan'.results) = n

C25_NoTwoSitesShareEndpoint ==
  \A a, b \in DOMAIN sites : a # b => sites[a].endpoint # sites[b].endpoint

\* C26: the mirror holds at most one row for any (site, username), whatever
\* creates, updates and deletes were made and whatever was done to the user on
\* the controller itself in between.
C26_OneMirrorRowPerSiteAndUser ==
  \A s \in SiteIds, u \in Usernames : Len(remote_users[s][u]) <= 1

\* C27: for each site at most one heartbeat probe is in flight: the callback of
\* a tick is not started while the callback of an earlier tick of the same site
\* awaits its probe, so that statuses are written in the order the probes
\* started.
C27_OneProbeInFlightPerSite ==
  \A s \in SiteIds : Cardinality(pending[s]) <= 1

\* C28: a deleteRemoteUser that finds the user gone from the controller while
\* the mirror still holds it, as the retry does after an attempt that removed
\* the user there and failed before the mirror, reports success and leaves no
\* mirror row for (site, username).
C28_Step ==
  (/\ op.pc = "busy" /\ op'.pc = "done"
   /\ op'.fn = "deleteRemoteUser" /\ op'.absent
   /\ remote_users[op.siteId][op.username] # <<>>) =>
    /\ op'.success
    /\ remote_users'[op.siteId][op.username] = <<>>

C28_RetriedDeleteConverges == [][C28_Step]_vars

\* C29: the probe of a registered site of type local reports connected, so no
\* heartbeat ever writes the status offline to the row of a local site.
C29_LocalSiteNeverOffline ==
  \A s \in DOMAIN sites : sites[s].site_type = "local" => sites[s].status # "offline"

\* C30: a loadPlugin that failed, at whichever step, left the plugin manager as
\* it found it: the plugins map, the hooks, the routes and the middleware are
\* those the call started from, so nothing of the plugin is registered.
C30_FailedLoadChangesNothing ==
  (load.pc = "done" /\ load.threw) => ManagerState = load.before

====
